---- MODULE Spec2Model ----
(***************************************************************************)
(* chatZ: the message tree builder (components/ChatArea.tsx) and the       *)
(* streaming / message state of App (App.tsx).                             *)
(*                                                                         *)
(* TreeSpec checks the pure tree builder on every bounded message list.    *)
(* Spec is the App state machine: user handlers, the Tauri backend and the *)
(* stream events.                                                          *)
(***************************************************************************)
EXTENDS Integers, Sequences, FiniteSets, TLC

\* ---------------------------------------------------------------- bounds
MaxTreeMsgs == 3      \* longest message list handed to the tree builder

\* ------------------------------------------------------------- constants
StreamId == 0 - 1     \* id of the ephemeral streaming node
NoReply == 0          \* reply_to_id absent (undefined and 0 are both falsy)
NoThread == 0         \* activeThreadId null

VARIABLES
  treeMessages,       \* ChatArea prop `messages` of the render under check
  treeStreaming,      \* ChatArea prop `isStreaming` of that render
  tree,               \* value of the messageTree memo
  treePc,             \* "input" before the memo is computed, "built" after
  activeThreadId,     \* App state: selected thread, NoThread when null
  messages,           \* App state: displayed message list
  streamingContent,   \* App state: transient buffer, a sequence of deltas
  isStreaming,        \* App state: a generation is taken to be in flight
  listening,          \* the stream listeners of the last effect run are registered
  db,                 \* backend: persisted message log of every thread
  nextId,             \* backend: next message id storage assigns
  gen,                \* the generation command in flight, NoGen when none;
                      \* emitted: deltas the backend sent, heard: those a
                      \* registered handler received, finalId: id of the
                      \* stored answer once the backend has persisted it
  loads,              \* get_messages calls of loadMessages in flight
  outcome,            \* how the last generation cycle ended, "none" during one
  requests,           \* number of generation requests issued so far
  threads,            \* App state: the thread list, a sequence of thread ids
  smartContextEnabled,       \* App state
  selectedContextThreadIds,  \* App state: source threads of the context
  newChat,            \* the handleNewChat call in flight: its position, its
                      \* locals and the thread list it closed over
  createCalls,        \* backend: systemPrompt of every create_thread call
  modalConfig,        \* App state: the confirmation dialog and its onConfirm
  pending,            \* delete_message, delete_thread and rename_thread calls
                      \* in flight, each with what its handler closed over
  dialogs             \* number of confirmation dialogs opened so far

treeVars == <<treeMessages, treeStreaming, tree, treePc>>

appVars == <<activeThreadId, messages, streamingContent, isStreaming, listening,
             db, nextId, gen, loads, outcome, requests>>

chatVars == <<threads, smartContextEnabled, selectedContextThreadIds, newChat,
              createCalls>>

opVars == <<modalConfig, pending, dialogs>>

vars == <<treeVars, appVars, chatVars, opVars>>

\* ------------------------------------------------------ message tree builder
\* A forest is [roots |-> Seq(id), children |-> [id -> Seq(id)]]: the map of
\* MessageNode objects keyed by id, each with its children array, plus the
\* roots array that is returned.

MsgIds(msgs) == {msgs[i].id : i \in 1..Len(msgs)}

\* the reply-link inference without the test of the predecessor's role
PatchedMessagesAnyPrev(msgs) ==
  [i \in 1..Len(msgs) |->
     IF msgs[i].role = "assistant" /\ msgs[i].reply_to_id = NoReply /\ i > 1
     THEN [msgs[i] EXCEPT !.reply_to_id = msgs[i-1].id]
     ELSE msgs[i]]

\* const patchedMessages = messages.map((m, index) => ...)
PatchedMessages(msgs) ==
  [i \in 1..Len(msgs) |->
     IF /\ msgs[i].role = "assistant"
        /\ msgs[i].reply_to_id = NoReply
        /\ i > 1
        /\ msgs[i - 1].role = "user"
     THEN [msgs[i] EXCEPT !.reply_to_id = msgs[i - 1].id]
     ELSE msgs[i]]

\* messageMap.set(m.id, { ...m, children: [] }), and the streaming node's
\* own empty children array
EmptyForest(msgs) ==
  [roots |-> <<>>,
   children |-> [n \in MsgIds(msgs) \cup {StreamId} |-> <<>>]]

\* body of the second forEach where only a message without reply_to_id is
\* pushed to roots: a reply whose parent is not loaded is placed nowhere
PlaceNodeDropOrphan(acc, m, ids) ==
  IF m.reply_to_id # NoReply
  THEN IF m.reply_to_id \in ids
       THEN [acc EXCEPT !.children[m.reply_to_id] = Append(@, m.id)]
       ELSE acc
  ELSE [acc EXCEPT !.roots = Append(@, m.id)]

\* body of the second forEach with the else dropped: every node is pushed to
\* roots, a reply also to its parent
PlaceNodeNoElse(acc, m, ids) ==
  IF m.reply_to_id # NoReply /\ m.reply_to_id \in ids
  THEN [roots |-> Append(acc.roots, m.id),
        children |-> [acc.children EXCEPT ![m.reply_to_id] = Append(@, m.id)]]
  ELSE [acc EXCEPT !.roots = Append(@, m.id)]

\* body of the second forEach with unshift in place of push: a node is put in
\* front of its siblings
PlaceNodeUnshift(acc, m, ids) ==
  IF m.reply_to_id # NoReply /\ m.reply_to_id \in ids
  THEN [acc EXCEPT !.children[m.reply_to_id] = <<m.id>> \o @]
  ELSE [acc EXCEPT !.roots = <<m.id>> \o @]

\* body of the second forEach: attach to the parent or push to roots
PlaceNode(acc, m, ids) ==
  IF m.reply_to_id # NoReply /\ m.reply_to_id \in ids
  THEN [acc EXCEPT !.children[m.reply_to_id] = Append(@, m.id)]
  ELSE [acc EXCEPT !.roots = Append(@, m.id)]

RECURSIVE BuildFrom(_, _, _)
BuildFrom(pm, i, acc) ==
  IF i > Len(pm) THEN acc
  ELSE BuildFrom(pm, i + 1, PlaceNode(acc, pm[i], MsgIds(pm)))

buildMessageTree(msgs) ==
  BuildFrom(PatchedMessages(msgs), 1, EmptyForest(msgs))

\* attachToNode: depth-first search of nodes and their children for attachToId
RECURSIVE attachToNode(_, _, _)
attachToNode(nodes, children, attachToId) ==
  IF nodes = <<>> THEN FALSE
  ELSE IF Head(nodes) = attachToId THEN TRUE
  ELSE IF attachToNode(children[Head(nodes)], children, attachToId) THEN TRUE
  ELSE attachToNode(Tail(nodes), children, attachToId)

\* the streaming graft pushed under the reply target of the last message
GraftUnderTarget(t, msgs) ==
  LET lastMessage == msgs[Len(msgs)] IN
  IF Len(msgs) > 0 /\ lastMessage.reply_to_id # NoReply
  THEN IF attachToNode(t.roots, t.children, lastMessage.reply_to_id)
       THEN [t EXCEPT !.children[lastMessage.reply_to_id] = Append(@, StreamId)]
       ELSE [t EXCEPT !.roots = Append(@, StreamId)]
  ELSE [t EXCEPT !.roots = Append(@, StreamId)]

\* the streaming graft always pushed to roots
GraftAsRoot(t, msgs) == [t EXCEPT !.roots = Append(@, StreamId)]

\* the streaming graft put in front of the roots when it is a root
GraftFirstRoot(t, msgs) ==
  LET lastMessage == msgs[Len(msgs)] IN
  IF Len(msgs) > 0 /\ lastMessage.reply_to_id # NoReply
  THEN IF attachToNode(t.roots, t.children, lastMessage.id)
       THEN [t EXCEPT !.children[lastMessage.id] = Append(@, StreamId)]
       ELSE [t EXCEPT !.roots = <<StreamId>> \o @]
  ELSE [t EXCEPT !.roots = <<StreamId>> \o @]

\* if (isStreaming) { ... }: graft of the streaming node onto the tree
Graft(t, msgs) ==
  LET lastMessage == msgs[Len(msgs)] IN
  IF Len(msgs) > 0 /\ lastMessage.reply_to_id # NoReply
  THEN IF attachToNode(t.roots, t.children, lastMessage.id)
       THEN [t EXCEPT !.children[lastMessage.id] = Append(@, StreamId)]
       ELSE [t EXCEPT !.roots = Append(@, StreamId)]
  ELSE [t EXCEPT !.roots = Append(@, StreamId)]

\* the messageTree memo of ChatArea
messageTree(msgs, isStreamingProp) ==
  IF isStreamingProp THEN Graft(buildMessageTree(msgs), msgs)
  ELSE buildMessageTree(msgs)

\* ------------------------------------------------------- forest measures
SeqToSet(s) == {s[i] : i \in 1..Len(s)}

Occurrences(s, x) == Cardinality({i \in 1..Len(s) : s[i] = x})

RECURSIVE ReachFrom(_, _)
ReachFrom(t, S) ==
  LET N == S \cup UNION {SeqToSet(t.children[n]) : n \in S} IN
  IF N = S THEN S ELSE ReachFrom(t, N)

\* the nodes of the returned forest: the roots and all their descendants
ForestNodes(t) == ReachFrom(t, SeqToSet(t.roots))

\* proper descendants of node n
Descendants(t, n) == ReachFrom(t, SeqToSet(t.children[n]))

\* number of places at which node x hangs in the returned forest
ForestOccurrences(t, x) ==
  LET nodes == ForestNodes(t)
      RECURSIVE Sum(_)
      Sum(S) == IF S = {} THEN 0
                ELSE LET n == CHOOSE n \in S : TRUE
                     IN Occurrences(t.children[n], x) + Sum(S \ {n})
  IN Occurrences(t.roots, x) + Sum(nodes)

\* parent of x among the nodes of the returned forest, or StreamId - 1
NoParent == StreamId - 1
ParentOf(t, x) ==
  IF \E n \in ForestNodes(t) : x \in SeqToSet(t.children[n])
  THEN CHOOSE n \in ForestNodes(t) : x \in SeqToSet(t.children[n])
  ELSE NoParent

\* ------------------------------------------------------------ App: bounds
NThreads == 2         \* threads in the sidebar
MaxDeltas == 2        \* text deltas the backend emits in one generation
MaxRequests == 2      \* generation requests issued in one run
MaxShown == 3         \* a message is sent only while fewer are displayed

TempIdBase == 100     \* Date.now(): ids of optimistic messages, above storage ids

Threads == 1..NThreads
\* the k-th text delta of a generation: the answer "xy" arrives as "x", "y", ...
DeltaAt(k) == IF k % 2 = 1 THEN "x" ELSE "y"

NoGen ==
  [phase |-> "idle", kind |-> "none", threadId |-> NoThread, messageId |-> 0,
   content |-> <<>>, replyToId |-> NoReply, emitted |-> <<>>, heard |-> <<>>,
   finalId |-> 0]

Message(id, threadId, role, content, replyToId) ==
  [id |-> id, thread_id |-> threadId, role |-> role, content |-> content,
   reply_to_id |-> replyToId]

\* prev.findIndex(m => m.id === messageId); 0 when absent
FindIndex(msgs, messageId) ==
  IF \E i \in 1..Len(msgs) : msgs[i].id = messageId
  THEN CHOOSE i \in 1..Len(msgs) :
         msgs[i].id = messageId /\ \A j \in 1..(i - 1) : msgs[j].id # messageId
  ELSE 0

\* prev.slice(0, n)
Slice(msgs, n) == SubSeq(msgs, 1, n)

\* loadMessages(threadId): the get_messages call is issued. loads holds the
\* thread ids of the calls in flight; a second call for a thread stands for
\* the first one too.
loadMessages(threadId) == loads \cup {threadId}

\* ------------------------------------------------- App: optimistic updates
\* handleSendMessage: [...prev, tempMsg]
TempMsg(content, replyToId) ==
  Message(TempIdBase + Cardinality({i \in 1..Len(messages) :
                                      messages[i].id >= TempIdBase}),
          activeThreadId, "user", content, replyToId)

\* handleRetry: drop the last message when it is an assistant message
RetryUpdate(prev) ==
  IF Len(prev) > 0 /\ prev[Len(prev)].role = "assistant"
  THEN Slice(prev, Len(prev) - 1)
  ELSE prev

\* a regenerate update that keeps the message itself: prev.slice(0, index + 1)
RegenerateKeepsTarget(prev, messageId) ==
  LET index == FindIndex(prev, messageId) IN
  IF index = 0 THEN prev ELSE Slice(prev, index)

\* handleRegenerateResponse: drop messageId and everything after it
RegenerateUpdate(prev, messageId) ==
  LET index == FindIndex(prev, messageId) IN
  IF index = 0 THEN prev ELSE Slice(prev, index - 1)

\* handleEdit: keep up to the edited message, with its content replaced
EditUpdate(prev, messageId, newContent) ==
  LET index == FindIndex(prev, messageId) IN
  IF index = 0 THEN prev
  ELSE [Slice(prev, index) EXCEPT ![index].content = newContent]

\* ----------------------------------------------------- App: guards
\* handleSubmit / handleKeyDown with a non-empty input
CanSubmit == ~isStreaming

\* if (!activeThreadId) return;
CanSendMessage == activeThreadId # NoThread

\* handleRetry entered with the isStreaming test left out
CanRetryUnguarded == activeThreadId # NoThread

\* if (!activeThreadId || isStreaming) return;
CanRetry == activeThreadId # NoThread /\ ~isStreaming

CanRegenerate == activeThreadId # NoThread /\ ~isStreaming

CanEdit == activeThreadId # NoThread /\ ~isStreaming

\* the model stops issuing generation requests after MaxRequests of them
RequestsLeft == requests < MaxRequests

\* --------------------------------------------------- App: state updates
\* stream-response handler that keeps only the newest delta
ReplaceDelta(prev, payload) == <<payload>>

\* setStreamingContent((prev) => prev + event.payload)
AppendDelta(prev, payload) == Append(prev, payload)

\* setStreamingContent("") of the four request handlers
ClearBuffer(prev) == <<>>

\* setStreamingContent("") of the stream-done handler
DoneBuffer(prev) == <<>>

\* the stream-done handler without its reload
DoneNoReload(active) == loads

\* if (activeThreadId) { loadMessages(activeThreadId); } of the stream-done handler
DoneLoads(active) == IF active # NoThread THEN loadMessages(active) ELSE loads

\* ------------------------------------------------------- App: user steps
\* Sidebar onSelectThread = setActiveThreadId; the effects on activeThreadId
\* then load the thread and re-subscribe the stream listeners
SelectThread(t) ==
  /\ t # activeThreadId
  /\ activeThreadId' = t
  /\ loads' = loadMessages(t)
  /\ listening' = FALSE
  /\ UNCHANGED <<outcome, requests>>
  /\ UNCHANGED <<messages, streamingContent, isStreaming, db, nextId, gen>>

\* listen() of the last effect run resolves: its handlers are registered
ListenRegistered ==
  /\ ~listening
  /\ listening' = TRUE
  /\ UNCHANGED <<outcome, requests>>
  /\ UNCHANGED <<activeThreadId, messages, streamingContent, isStreaming, db,
                 nextId, gen, loads>>

Request(kind, messageId, content, replyToId) ==
  [phase |-> "sent", kind |-> kind, threadId |-> activeThreadId,
   messageId |-> messageId, content |-> content, replyToId |-> replyToId,
   emitted |-> <<>>, heard |-> <<>>, finalId |-> 0]

handleSendMessage(content, replyToId) ==
  /\ CanSubmit
  /\ CanSendMessage
  /\ RequestsLeft /\ Len(messages) < MaxShown
  /\ messages' = Append(messages, TempMsg(content, replyToId))
  /\ isStreaming' = TRUE
  /\ streamingContent' = ClearBuffer(streamingContent)
  /\ gen' = Request("send", 0, content, replyToId)
  /\ outcome' = "none"
  /\ requests' = requests + 1
  /\ UNCHANGED <<activeThreadId, listening, db, nextId, loads>>

handleRetry ==
  /\ CanRetry
  /\ RequestsLeft
  /\ isStreaming' = TRUE
  /\ streamingContent' = ClearBuffer(streamingContent)
  /\ messages' = RetryUpdate(messages)
  /\ gen' = Request("retry", 0, <<>>, NoReply)
  /\ outcome' = "none"
  /\ requests' = requests + 1
  /\ UNCHANGED <<activeThreadId, listening, db, nextId, loads>>

handleRegenerateResponse(messageId) ==
  /\ CanRegenerate
  /\ RequestsLeft
  /\ isStreaming' = TRUE
  /\ streamingContent' = ClearBuffer(streamingContent)
  /\ messages' = RegenerateUpdate(messages, messageId)
  /\ gen' = Request("regenerate", messageId, <<>>, NoReply)
  /\ outcome' = "none"
  /\ requests' = requests + 1
  /\ UNCHANGED <<activeThreadId, listening, db, nextId, loads>>

handleEdit(messageId, newContent) ==
  /\ CanEdit
  /\ RequestsLeft
  /\ isStreaming' = TRUE
  /\ streamingContent' = ClearBuffer(streamingContent)
  /\ messages' = EditUpdate(messages, messageId, newContent)
  /\ gen' = Request("edit", messageId, newContent, NoReply)
  /\ outcome' = "none"
  /\ requests' = requests + 1
  /\ UNCHANGED <<activeThreadId, listening, db, nextId, loads>>

\* catch blocks of the four request handlers: the invoke promise rejects
RejectLoads(g) ==
  IF g.kind = "regenerate" THEN loadMessages(g.threadId) ELSE loads

\* ----------------------------------------------------- backend (Tauri side)
\* the log of thread t after the command of g has been accepted
Accepted(g, log) ==
  CASE g.kind = "send" ->
         Append(log, Message(nextId, g.threadId, "user", g.content, g.replyToId))
    [] g.kind = "retry" -> RetryUpdate(log)
    [] g.kind = "regenerate" -> RegenerateUpdate(log, g.messageId)
    [] g.kind = "edit" -> EditUpdate(log, g.messageId, g.content)

\* regenerate_from_message and edit_message need the message in the log
Acceptable(g) ==
  g.kind \in {"regenerate", "edit"} => FindIndex(db[g.threadId], g.messageId) # 0

BackendAccept ==
  /\ gen.phase = "sent"
  /\ Acceptable(gen)
  /\ db' = [db EXCEPT ![gen.threadId] = Accepted(gen, @)]
  /\ nextId' = IF gen.kind = "send" THEN nextId + 1 ELSE nextId
  /\ gen' = [gen EXCEPT !.phase = "streaming"]
  /\ UNCHANGED <<outcome, requests>>
  /\ UNCHANGED <<activeThreadId, messages, streamingContent, isStreaming,
                 listening, loads>>

\* the command fails, before or after it streamed: the invoke promise rejects
\* and the catch block of the handler that issued it runs
InvokeReject ==
  /\ gen.phase \in {"sent", "streaming"}
  /\ isStreaming' = FALSE
  /\ loads' = RejectLoads(gen)
  /\ gen' = NoGen
  /\ outcome' = "rejected"
  /\ UNCHANGED requests
  /\ UNCHANGED <<activeThreadId, messages, streamingContent, listening, db,
                 nextId>>

\* the backend emits stream-response and the registered handler runs
StreamResponse ==
  /\ gen.phase = "streaming"
  /\ Len(gen.emitted) < MaxDeltas
  /\ listening
  /\ gen' = [gen EXCEPT !.emitted = Append(@, DeltaAt(Len(@) + 1)),
                        !.heard = Append(@, DeltaAt(Len(gen.emitted) + 1))]
  /\ streamingContent' =
       AppendDelta(streamingContent, DeltaAt(Len(gen.emitted) + 1))
  /\ UNCHANGED <<outcome, requests>>
  /\ UNCHANGED <<activeThreadId, messages, isStreaming, listening, db, nextId,
                 loads>>

\* the backend emits stream-response while the listeners are being re-subscribed
StreamResponseUnheard ==
  /\ gen.phase = "streaming"
  /\ Len(gen.emitted) < MaxDeltas
  /\ ~listening
  /\ gen' = [gen EXCEPT !.emitted = Append(@, DeltaAt(Len(@) + 1))]
  /\ UNCHANGED <<outcome, requests>>
  /\ UNCHANGED <<activeThreadId, messages, streamingContent, isStreaming,
                 listening, db, nextId, loads>>

\* the backend stores the assistant message it generated
BackendPersist ==
  /\ gen.phase = "streaming"
  /\ db' = [db EXCEPT ![gen.threadId] =
              Append(@, Message(nextId, gen.threadId, "assistant", gen.emitted,
                                NoReply))]
  /\ nextId' = nextId + 1
  /\ gen' = [gen EXCEPT !.phase = "persisted", !.finalId = nextId]
  /\ UNCHANGED <<outcome, requests>>
  /\ UNCHANGED <<activeThreadId, messages, streamingContent, isStreaming,
                 listening, loads>>

\* the backend emits stream-done and the registered handler runs
StreamDone ==
  /\ gen.phase = "persisted"
  /\ listening
  /\ isStreaming' = FALSE
  /\ loads' = DoneLoads(activeThreadId)
  /\ streamingContent' = DoneBuffer(streamingContent)
  /\ gen' = NoGen
  /\ outcome' = "done"
  /\ UNCHANGED requests
  /\ UNCHANGED <<activeThreadId, messages, listening, db, nextId>>

\* the backend emits stream-done while the listeners are being re-subscribed
StreamDoneUnheard ==
  /\ gen.phase = "persisted"
  /\ ~listening
  /\ gen' = NoGen
  /\ outcome' = "unheard"
  /\ UNCHANGED requests
  /\ UNCHANGED <<activeThreadId, messages, streamingContent, isStreaming,
                 listening, db, nextId, loads>>

\* loadMessages: const msgs = await invoke("get_messages", { threadId });
\* setMessages(msgs). The backend reads the log when it answers.
LoadMessagesResolve(l) ==
  /\ l \in loads
  /\ messages' = db[l]
  /\ loads' = loads \ {l}
  /\ UNCHANGED <<outcome, requests>>
  /\ UNCHANGED <<activeThreadId, streamingContent, isStreaming, listening, db,
                 nextId, gen>>

\* loadMessages: the call rejects and the catch block only logs
LoadMessagesReject(l) ==
  /\ l \in loads
  /\ loads' = loads \ {l}
  /\ UNCHANGED <<outcome, requests>>
  /\ UNCHANGED <<activeThreadId, messages, streamingContent, isStreaming,
                 listening, db, nextId, gen>>

\* ------------------------------------------------------------------ Spec
UserText == <<"q">>   \* what the user types
EditText == <<"e">>   \* what the user changes a message to

\* the log of thread 1 when the app starts: one stored exchange
StoredLog ==
  <<Message(1, 1, "user", UserText, NoReply),
    Message(2, 1, "assistant", <<"x">>, NoReply)>>

\* replyingTo: nothing, or the most recent message displayed
ReplyChoices ==
  {NoReply} \cup (IF Len(messages) > 0 THEN {messages[Len(messages)].id} ELSE {})

AppInit ==
  /\ activeThreadId = NoThread
  /\ messages = <<>>
  /\ streamingContent = <<>>
  /\ isStreaming = FALSE
  /\ listening = TRUE
  /\ db = [t \in Threads |-> IF t = 1 THEN StoredLog ELSE <<>>]
  /\ nextId = 3
  /\ gen = NoGen
  /\ loads = {}
  /\ outcome = "none"
  /\ requests = 0

\* ------------------------------------------ App: handleNewChat (context)
PerThreadCap == 5     \* msgs.slice(-5) of every selected thread
GlobalCap == 20       \* contextMessages.slice(-20)

\* the instruction text is a sequence of lines, a line a sequence of strings;
\* a text that ends in "\n" ends in an empty line
BaseText == << <<"persona">> >>
ContextOpen == <<"[CONTEXT FROM PREVIOUS SESSION]">>
ContextClose == <<"[END CONTEXT]">>

\* role.toUpperCase()
ToUpperCase(role) ==
  IF role = "user" THEN "USER"
  ELSE IF role = "assistant" THEN "ASSISTANT" ELSE role

\* s.slice(-n)
SliceLast(s, n) == IF Len(s) <= n THEN s ELSE SubSeq(s, Len(s) - n + 1, Len(s))

\* s.slice(0, n) in place of s.slice(-n)
SliceFirst(s, n) == IF Len(s) <= n THEN s ELSE SubSeq(s, 1, n)

\* Array.prototype.sort with the created_at comparator: stable, ascending
SortedInsert(sorted, m) ==
  LET k == Cardinality({i \in 1..Len(sorted) :
                          sorted[i].created_at <= m.created_at})
  IN SubSeq(sorted, 1, k) \o <<m>> \o SubSeq(sorted, k + 1, Len(sorted))

RECURSIVE SortByCreatedAt(_)
SortByCreatedAt(s) ==
  IF s = <<>> THEN <<>>
  ELSE SortedInsert(SortByCreatedAt(SubSeq(s, 1, Len(s) - 1)), s[Len(s)])

\* the whole log of a selected thread in place of its tail
TakeWholeLog(msgs) == msgs

\* contribution of one selected thread: msgs.slice(-5)
TakeFromSelected(msgs) == SliceLast(msgs, PerThreadCap)

\* a failed fetch that throws away what was collected
CatchFetchDiscard(pool) == <<>>

\* inner catch: the fetch of one selected thread failed, the pool is kept
CatchFetch(pool) == pool

\* the per-thread cap applied to the active thread's messages
LegacyPoolCapped(msgs) == SliceLast(msgs, PerThreadCap)

\* contextMessages = messages
LegacyPool(msgs) == msgs

\* the per-thread cap applied to the first thread's log
FallbackPoolCapped(log) == SliceLast(log, PerThreadCap)

\* contextMessages = await get_messages(threads[0].id)
FallbackPool(log) == log

\* the first 20 of the sorted pool in place of the last 20
RecentOldest(pool) == SliceFirst(SortByCreatedAt(pool), GlobalCap)

\* sort, then slice(-20)
Recent(pool) == SliceLast(SortByCreatedAt(pool), GlobalCap)

\* the line of a message with its role as stored
ContextLineAsStored(m) == <<m.role, ": ">> \o m.content

\* `${m.role.toUpperCase()}: ${m.content}`
ContextLine(m) == <<ToUpperCase(m.role), ": ">> \o m.content

ContextStr(recent) == [i \in 1..Len(recent) |-> ContextLine(recent[i])]

\* the delimiters appended whatever the pool holds
WithContextAlways(prompt, pool) ==
  prompt \o << <<>>, ContextOpen >> \o ContextStr(Recent(pool))
         \o << ContextClose, <<>> >>

\* systemPrompt after the selection: the context block is appended to the
\* persona text only for a non-empty pool
WithContext(prompt, pool) ==
  IF Len(pool) > 0
  THEN prompt \o << <<>>, ContextOpen >> \o ContextStr(Recent(pool))
              \o << ContextClose, <<>> >>
  ELSE prompt

NoNewChat ==
  [pc |-> "idle", idx |-> 0, selected |-> <<>>, contextMessages |-> <<>>,
   recent |-> <<>>, systemPrompt |-> <<>>, threads |-> <<>>, failed |-> {}]

\* the pool is complete: post-selection processing, then create_thread is
\* invoked with the resulting systemPrompt
Assembled(nc, pool) ==
  [nc EXCEPT !.pc = "creating", !.contextMessages = pool,
             !.recent = IF Len(pool) > 0 THEN Recent(pool) ELSE <<>>,
             !.systemPrompt = WithContext(nc.systemPrompt, pool)]

\* an outer catch that returns from the handler
CatchAssemblyReturn(nc) == [nc EXCEPT !.pc = "done"]

\* outer catch: only logs; the handler goes on to create_thread with the
\* systemPrompt it has
CatchAssembly(nc) == [nc EXCEPT !.pc = "creating"]

\* invoke("create_thread", {title, systemPrompt}) when nc reaches the call
CreateCalls(nc) ==
  IF nc.pc = "creating" THEN Append(createCalls, nc.systemPrompt)
  ELSE createCalls

\* handleNewChat up to its first await (the App runs under Tauri): the
\* persona text is taken, the source of the context is chosen, and either a
\* get_messages call or the create_thread call is issued. The legacy branch
\* sorts the messages array of the App state itself.
handleNewChat ==
  /\ newChat.pc = "idle"
  /\ LET start == [NoNewChat EXCEPT !.systemPrompt = BaseText,
                                    !.selected = selectedContextThreadIds,
                                    !.threads = threads]
         nc == IF ~smartContextEnabled THEN [start EXCEPT !.pc = "creating"]
               ELSE IF Len(selectedContextThreadIds) > 0
                 THEN [start EXCEPT !.pc = "fetchSelected", !.idx = 1]
               ELSE IF activeThreadId # NoThread /\ Len(messages) > 0
                 THEN Assembled(start, LegacyPool(messages))
               ELSE IF Len(threads) > 0
                 THEN [start EXCEPT !.pc = "fetchFirst"]
               ELSE Assembled(start, <<>>)
     IN /\ newChat' = nc
        /\ createCalls' = CreateCalls(nc)
        /\ messages' = IF /\ smartContextEnabled
                          /\ Len(selectedContextThreadIds) = 0
                          /\ activeThreadId # NoThread /\ Len(messages) > 0
                       THEN SortByCreatedAt(messages) ELSE messages
  /\ UNCHANGED <<threads, smartContextEnabled, selectedContextThreadIds>>
  /\ UNCHANGED <<activeThreadId, streamingContent, isStreaming, listening, db,
                 nextId, gen, loads, outcome, requests>>

\* after the fetch of selected thread number idx (failed: the threads whose
\* fetch was rejected so far): the next fetch, or the
\* post-selection processing and the create_thread call
AfterSelectedFetch(pool, failed) ==
  LET fetched == [newChat EXCEPT !.failed = failed]
      nc == IF newChat.idx < Len(newChat.selected)
            THEN [fetched EXCEPT !.idx = @ + 1, !.contextMessages = pool]
            ELSE Assembled(fetched, pool)
  IN /\ newChat' = nc
     /\ createCalls' = CreateCalls(nc)

\* get_messages of a selected thread resolves
FetchSelectedResolve ==
  /\ newChat.pc = "fetchSelected"
  /\ AfterSelectedFetch(newChat.contextMessages
                          \o TakeFromSelected(db[newChat.selected[newChat.idx]]),
                        newChat.failed)
  /\ UNCHANGED <<threads, smartContextEnabled, selectedContextThreadIds>>
  /\ UNCHANGED appVars

\* get_messages of a selected thread rejects
FetchSelectedReject ==
  /\ newChat.pc = "fetchSelected"
  /\ AfterSelectedFetch(CatchFetch(newChat.contextMessages),
                        newChat.failed \cup {newChat.selected[newChat.idx]})
  /\ UNCHANGED <<threads, smartContextEnabled, selectedContextThreadIds>>
  /\ UNCHANGED appVars

\* get_messages of threads[0] resolves
FetchFirstResolve ==
  /\ newChat.pc = "fetchFirst"
  /\ LET nc == Assembled(newChat, FallbackPool(db[newChat.threads[1]]))
     IN newChat' = nc /\ createCalls' = CreateCalls(nc)
  /\ UNCHANGED <<threads, smartContextEnabled, selectedContextThreadIds>>
  /\ UNCHANGED appVars

\* get_messages of threads[0] rejects: the outer catch
FetchFirstReject ==
  /\ newChat.pc = "fetchFirst"
  /\ LET nc == CatchAssembly([newChat EXCEPT !.failed = {newChat.threads[1]}])
     IN newChat' = nc /\ createCalls' = CreateCalls(nc)
  /\ UNCHANGED <<threads, smartContextEnabled, selectedContextThreadIds>>
  /\ UNCHANGED appVars

\* the id storage gives the new thread
NewThreadId(ths) ==
  1 + Cardinality({t \in DOMAIN db : \E i \in 1..Len(ths) : ths[i] >= t})

\* create_thread resolves: the thread is put first in the list the handler
\* closed over and becomes the active thread, which runs the effects that load
\* its messages and register the stream listeners again
CreateThreadResolve ==
  /\ newChat.pc = "creating"
  /\ NewThreadId(threads) \in DOMAIN db
  /\ threads' = <<NewThreadId(threads)>> \o newChat.threads
  /\ activeThreadId' = NewThreadId(threads)
  /\ loads' = loadMessages(NewThreadId(threads))
  /\ listening' = FALSE
  /\ newChat' = [newChat EXCEPT !.pc = "done"]
  /\ UNCHANGED <<smartContextEnabled, selectedContextThreadIds, createCalls>>
  /\ UNCHANGED <<messages, streamingContent, isStreaming, db, nextId, gen,
                 outcome, requests>>

\* create_thread rejects: the catch block only logs
CreateThreadReject ==
  /\ newChat.pc = "creating"
  /\ newChat' = [newChat EXCEPT !.pc = "failed"]
  /\ UNCHANGED <<threads, smartContextEnabled, selectedContextThreadIds,
                 createCalls>>
  /\ UNCHANGED appVars

\* the App before any new chat: the thread list holds the stored threads
ChatIdle ==
  /\ threads = [i \in 1..NThreads |-> i]
  /\ smartContextEnabled = FALSE
  /\ selectedContextThreadIds = <<>>
  /\ newChat = NoNewChat
  /\ createCalls = <<>>

\* useState of modalConfig: closed, onConfirm a function that does nothing
NoConfirm == [kind |-> "none", threadId |-> NoThread, messageId |-> 0,
              active |-> NoThread]

ModalClosed == [isOpen |-> FALSE, onConfirm |-> NoConfirm]

\* the App before any dialog: no dialog is open and no call is in flight
OpsIdle ==
  /\ modalConfig = ModalClosed
  /\ pending = {}
  /\ dialogs = 0

TreeIdle ==
  /\ treeMessages = <<>>
  /\ treeStreaming = FALSE
  /\ tree = EmptyForest(<<>>)
  /\ treePc = "idle"

Init == AppInit /\ TreeIdle /\ ChatIdle /\ OpsIdle

Next ==
  \/ (\E t \in Threads : SelectThread(t)) /\ UNCHANGED <<treeVars, chatVars, opVars>>
  \/ ListenRegistered /\ UNCHANGED <<treeVars, chatVars, opVars>>
  \/ (\E r \in ReplyChoices : handleSendMessage(UserText, r))
       /\ UNCHANGED <<treeVars, chatVars, opVars>>
  \/ handleRetry /\ UNCHANGED <<treeVars, chatVars, opVars>>
  \/ (\E i \in 1..Len(messages) :
        messages[i].role = "assistant" /\ handleRegenerateResponse(messages[i].id))
       /\ UNCHANGED <<treeVars, chatVars, opVars>>
  \/ (\E i \in 1..Len(messages) :
        messages[i].role = "user" /\ handleEdit(messages[i].id, EditText))
       /\ UNCHANGED <<treeVars, chatVars, opVars>>
  \/ BackendAccept /\ UNCHANGED <<treeVars, chatVars, opVars>>
  \/ InvokeReject /\ UNCHANGED <<treeVars, chatVars, opVars>>
  \/ StreamResponse /\ UNCHANGED <<treeVars, chatVars, opVars>>
  \/ StreamResponseUnheard /\ UNCHANGED <<treeVars, chatVars, opVars>>
  \/ BackendPersist /\ UNCHANGED <<treeVars, chatVars, opVars>>
  \/ StreamDone /\ UNCHANGED <<treeVars, chatVars, opVars>>
  \/ StreamDoneUnheard /\ UNCHANGED <<treeVars, chatVars, opVars>>
  \/ (\E l \in loads : LoadMessagesResolve(l)) /\ UNCHANGED <<treeVars, chatVars, opVars>>
  \/ (\E l \in loads : LoadMessagesReject(l)) /\ UNCHANGED <<treeVars, chatVars, opVars>>

Spec == Init /\ [][Next]_vars

\* ------------------------------------------------------------- TreeSpec
Roles == {"user", "assistant"}

\* every list of at most MaxTreeMsgs messages with ids 1..n in list order;
\* reply_to_id may be absent, point at any message of the list (itself and
\* later ones included) or dangle
TreeInputs ==
  UNION {[1..n -> [role : Roles, reply_to_id : 0..(MaxTreeMsgs + 1)]] :
           n \in 0..MaxTreeMsgs}

WithIds(f) ==
  [i \in 1..Len(f) |-> [id |-> i, role |-> f[i].role,
                        reply_to_id |-> f[i].reply_to_id]]

TreeInit ==
  /\ \E f \in TreeInputs : treeMessages = WithIds(f)
  /\ treeStreaming \in BOOLEAN
  /\ tree = EmptyForest(<<>>)
  /\ treePc = "input"
  /\ AppInit
  /\ ChatIdle
  /\ OpsIdle

\* one evaluation of the messageTree memo
RenderTree ==
  /\ treePc = "input"
  /\ tree' = messageTree(treeMessages, treeStreaming)
  /\ treePc' = "built"
  /\ UNCHANGED <<treeMessages, treeStreaming>>
  /\ UNCHANGED <<appVars, chatVars, opVars>>

TreeNext == RenderTree

TreeSpec == TreeInit /\ [][TreeNext]_vars

\* ---------------------------------------------------------- NewChatSpec
\* One new-chat action from every bounded configuration: up to NCtxThreads
\* stored threads, the context settings, the active thread and its loaded
\* messages (loaded, or still empty while the load is pending); every
\* get_messages call and the create_thread call may resolve or reject.
NCtxThreads == 6      \* most stored threads

Tokens == <<"a", "b", "c", "d", "e", "f", "g", "h", "i", "j", "k", "l", "m",
            "n", "o", "p", "q", "r", "s", "t", "u", "v", "w", "x", "y", "z">>

\* length of the stored log of thread t: longer than the global cap, empty,
\* shorter than the per-thread cap, and 8 messages for every other thread
LogLen(t) ==
  CASE t = 1 -> 22
    [] t = 2 -> 0
    [] t = 3 -> 3
    [] t = 4 -> 8
    [] OTHER -> 8

\* how the logs of different threads lie in time: equal instants across
\* threads, interleaved, or thread after thread with the later threads older
Layouts == {"ties", "interleaved", "blocks"}

\* new Date(created_at).getTime() of message j of thread t
CreatedAt(layout, t, j) ==
  CASE layout = "ties" -> j
    [] layout = "interleaved" -> j * (NCtxThreads + 2) + t
    [] OTHER -> (NCtxThreads + 2 - t) * 100 + j

StoredMessage(layout, t, j) ==
  [id |-> t * 100 + j, thread_id |-> t,
   role |-> IF j % 2 = 1 THEN "user" ELSE "assistant",
   content |-> <<Tokens[t], Tokens[j]>>, reply_to_id |-> NoReply,
   created_at |-> CreatedAt(layout, t, j)]

LogOf(layout, t) == [j \in 1..LogLen(t) |-> StoredMessage(layout, t, j)]

\* the ids of S in ascending and in descending order
AscendingSeq(S) ==
  [i \in 1..Cardinality(S) |->
     CHOOSE x \in S : Cardinality({y \in S : y < x}) = i - 1]

DescendingSeq(S) ==
  [i \in 1..Cardinality(S) |->
     CHOOSE x \in S : Cardinality({y \in S : y > x}) = i - 1]

Orderings(S) == {AscendingSeq(S), DescendingSeq(S)}

NewChatInit ==
  /\ \E n \in 0..NCtxThreads, layout \in Layouts :
       /\ threads \in Orderings(1..n)
       /\ db = [t \in 1..(NCtxThreads + 1) |->
                  IF t <= n THEN LogOf(layout, t) ELSE <<>>]
       /\ \E S \in SUBSET (1..n) : selectedContextThreadIds \in Orderings(S)
       /\ activeThreadId \in {NoThread} \cup (1..n)
  /\ messages \in IF activeThreadId = NoThread THEN {<<>>}
                  ELSE IF selectedContextThreadIds = <<>>
                    THEN {<<>>, db[activeThreadId]}
                  ELSE {db[activeThreadId]}
  /\ smartContextEnabled \in BOOLEAN
  /\ newChat = NoNewChat
  /\ createCalls = <<>>
  /\ streamingContent = <<>>
  /\ isStreaming = FALSE
  /\ listening = TRUE
  /\ nextId = 1
  /\ gen = NoGen
  /\ loads = {}
  /\ outcome = "none"
  /\ requests = 0
  /\ TreeIdle
  /\ OpsIdle

NewChatNext ==
  \/ handleNewChat /\ UNCHANGED <<treeVars, opVars>>
  \/ FetchSelectedResolve /\ UNCHANGED <<treeVars, opVars>>
  \/ FetchSelectedReject /\ UNCHANGED <<treeVars, opVars>>
  \/ FetchFirstResolve /\ UNCHANGED <<treeVars, opVars>>
  \/ FetchFirstReject /\ UNCHANGED <<treeVars, opVars>>
  \/ CreateThreadResolve /\ UNCHANGED <<treeVars, opVars>>
  \/ CreateThreadReject /\ UNCHANGED <<treeVars, opVars>>

NewChatSpec == NewChatInit /\ [][NewChatNext]_vars

\* --------------------------------------------------------------- UpdateSpec
\* the optimistic updates of handleRetry, handleRegenerateResponse and
\* handleEdit on every displayed list of at most MaxShown messages: thread 1
\* is active and its stored log is the list displayed
UpdateInputs ==
  UNION {[1..n -> [role : Roles, content : {UserText, <<"x">>}]] :
           n \in 0..MaxShown}

UpdateInit ==
  /\ activeThreadId = 1
  /\ \E f \in UpdateInputs :
       /\ messages = [i \in 1..Len(f) |->
                        Message(i, 1, f[i].role, f[i].content, NoReply)]
       /\ db = [t \in Threads |-> IF t = 1 THEN messages ELSE <<>>]
  /\ streamingContent = <<>>
  /\ isStreaming = FALSE
  /\ listening = TRUE
  /\ nextId = MaxShown + 1
  /\ gen = NoGen
  /\ loads = {}
  /\ outcome = "none"
  /\ requests = 0
  /\ TreeIdle
  /\ ChatIdle
  /\ OpsIdle

\* the message id a handler is called with: a displayed one or one that is
\* not in the list
UpdateNext ==
  \/ handleRetry /\ UNCHANGED <<treeVars, chatVars, opVars>>
  \/ (\E m \in 1..(MaxShown + 1) : handleRegenerateResponse(m))
       /\ UNCHANGED <<treeVars, chatVars, opVars>>
  \/ (\E m \in 1..(MaxShown + 1) : handleEdit(m, EditText))
       /\ UNCHANGED <<treeVars, chatVars, opVars>>

UpdateSpec == UpdateInit /\ [][UpdateNext]_vars

\* ------------------------------------- App: confirmation dialog, deletions
\* setModalConfig(prev => ({ ...prev, isOpen: false }))
CloseModal(prev) == [prev EXCEPT !.isOpen = FALSE]

\* a delete or rename call in flight; active and threads are the
\* activeThreadId and the thread list the handler closed over
Call(op, threadId, messageId, active, ths) ==
  [op |-> op, threadId |-> threadId, messageId |-> messageId,
   active |-> active, threads |-> ths]

\* handleDeleteMessage(messageId): the dialog is opened with an onConfirm that
\* closes over the message and the active thread of this render
handleDeleteMessage(messageId) ==
  /\ activeThreadId # NoThread
  /\ modalConfig' =
       [isOpen |-> TRUE,
        onConfirm |-> [kind |-> "deleteMessage", threadId |-> activeThreadId,
                       messageId |-> messageId, active |-> activeThreadId]]
  /\ dialogs' = dialogs + 1
  /\ UNCHANGED pending

\* handleDeleteThread(threadId) of a render whose activeThreadId is active:
\* the modalConfig it sets
handleDeleteThread(threadId, active) ==
  [isOpen |-> TRUE,
   onConfirm |-> [kind |-> "deleteThread", threadId |-> threadId,
                  messageId |-> 0, active |-> active]]

\* Sidebar prop onDeleteThread: the dialog is opened with an onConfirm that
\* calls handleDeleteThread(id) of this render and then closes the dialog
onDeleteThread(id) ==
  /\ modalConfig' =
       [isOpen |-> TRUE,
        onConfirm |-> [kind |-> "onDeleteThread", threadId |-> id,
                       messageId |-> 0, active |-> activeThreadId]]
  /\ dialogs' = dialogs + 1
  /\ UNCHANGED pending

\* ConfirmationModal, button Delete: modalConfig.onConfirm runs up to its
\* first await
ModalConfirm ==
  /\ modalConfig.isOpen
  /\ LET f == modalConfig.onConfirm
     IN /\ modalConfig' =
             IF f.kind = "onDeleteThread"
             THEN CloseModal(handleDeleteThread(f.threadId, f.active))
             ELSE modalConfig
        /\ pending' =
             IF f.kind = "deleteMessage"
               THEN pending \cup {Call("delete_message", f.threadId,
                                       f.messageId, f.active, <<>>)}
             ELSE IF f.kind = "deleteThread"
               THEN pending \cup {Call("delete_thread", f.threadId, 0,
                                       f.active, <<>>)}
             ELSE pending
  /\ UNCHANGED dialogs

\* ConfirmationModal, button Cancel
ModalCancel ==
  /\ modalConfig.isOpen
  /\ modalConfig' = CloseModal(modalConfig)
  /\ UNCHANGED <<pending, dialogs>>

\* handleRenameThread(threadId, newTitle) up to its await
handleRenameThread(threadId) ==
  /\ pending' = pending \cup {Call("rename_thread", threadId, 0, NoThread,
                                   threads)}
  /\ UNCHANGED <<modalConfig, dialogs>>

\* threads.map(t => t.id === threadId ? { ...t, title: newTitle } : t): the
\* list keeps its ids and their order, only a title changes
RenameIn(ths, threadId) == [i \in 1..Len(ths) |-> ths[i]]

\* prev.filter(t => t.id !== threadId)
FilterOut(ths, threadId) ==
  LET F[i \in 0..Len(ths)] ==
        IF i = 0 THEN <<>>
        ELSE IF ths[i] = threadId THEN F[i - 1] ELSE Append(F[i - 1], ths[i])
  IN F[Len(ths)]

\* backend delete_message: the message and every later message of the log
DeleteStored(log, messageId) ==
  IF FindIndex(log, messageId) = 0 THEN log
  ELSE Slice(log, FindIndex(log, messageId) - 1)

\* the thread delete_thread clears away is the one its handler saw as active
ClearsActive(c) == c.op = "delete_thread" /\ c.active = c.threadId

\* the awaited call of c resolves and the rest of the try block runs
PendingResolve(c) ==
  /\ c \in pending
  /\ pending' = pending \ {c}
  /\ db' = CASE c.op = "delete_message" ->
                  [db EXCEPT ![c.threadId] = DeleteStored(@, c.messageId)]
             [] c.op = "delete_thread" -> [db EXCEPT ![c.threadId] = <<>>]
             [] OTHER -> db
  /\ loads' = IF c.op = "delete_message" THEN loadMessages(c.active) ELSE loads
  /\ threads' = CASE c.op = "delete_thread" -> FilterOut(threads, c.threadId)
                  [] c.op = "rename_thread" -> RenameIn(c.threads, c.threadId)
                  [] OTHER -> threads
  /\ activeThreadId' = IF ClearsActive(c) THEN NoThread ELSE activeThreadId
  /\ messages' = IF ClearsActive(c) THEN <<>> ELSE messages
  /\ listening' = IF ClearsActive(c) /\ activeThreadId # NoThread THEN FALSE
                  ELSE listening
  /\ modalConfig' = IF c.op = "rename_thread" THEN modalConfig
                    ELSE CloseModal(modalConfig)
  /\ UNCHANGED <<streamingContent, isStreaming, nextId, gen, outcome, requests>>
  /\ UNCHANGED <<smartContextEnabled, selectedContextThreadIds, newChat,
                 createCalls, dialogs>>

\* the awaited call of c rejects and the catch block runs
PendingReject(c) ==
  /\ c \in pending
  /\ pending' = pending \ {c}
  /\ modalConfig' = IF c.op = "rename_thread" THEN modalConfig
                    ELSE CloseModal(modalConfig)
  /\ UNCHANGED <<appVars, chatVars, dialogs>>

\* ----------------------------------------------------------------- OpsSpec
\* the App with two stored threads, one of them with a stored exchange, and
\* room in storage for one more thread
OpsInit ==
  /\ activeThreadId = NoThread
  /\ messages = <<>>
  /\ streamingContent = <<>>
  /\ isStreaming = FALSE
  /\ listening = TRUE
  /\ db = [t \in 1..(NThreads + 1) |-> IF t = 1 THEN StoredLog ELSE <<>>]
  /\ nextId = 3
  /\ gen = NoGen
  /\ loads = {}
  /\ outcome = "none"
  /\ requests = 0
  /\ ChatIdle
  /\ OpsIdle
  /\ TreeIdle

MaxPending == 1       \* delete and rename calls in flight at one time
MaxDialogs == 1       \* confirmation dialogs opened in one run
MaxOpsRequests == 1   \* generation requests issued beside the dialogs

DialogsLeft == dialogs < MaxDialogs

CallsLeft == Cardinality(pending) < MaxPending

\* a click reaches a control of the App only while the dialog, which covers
\* the window, is not shown
Reachable == ~modalConfig.isOpen

OpsNext ==
  \/ Reachable /\ (\E i \in 1..Len(threads) : SelectThread(threads[i]))
       /\ UNCHANGED <<treeVars, chatVars, opVars>>
  \/ ListenRegistered /\ UNCHANGED <<treeVars, chatVars, opVars>>
  \/ Reachable /\ requests < MaxOpsRequests
       /\ handleSendMessage(UserText, NoReply)
       /\ UNCHANGED <<treeVars, chatVars, opVars>>
  \/ Reachable /\ handleNewChat /\ UNCHANGED <<treeVars, opVars>>
  \/ Reachable /\ DialogsLeft /\ Len(messages) > 0
       /\ handleDeleteMessage(messages[Len(messages)].id)
       /\ UNCHANGED <<treeVars, appVars, chatVars>>
  \/ Reachable /\ DialogsLeft /\ activeThreadId # NoThread
       /\ onDeleteThread(activeThreadId)
       /\ UNCHANGED <<treeVars, appVars, chatVars>>
  \/ CallsLeft /\ ModalConfirm /\ UNCHANGED <<treeVars, appVars, chatVars>>
  \/ ModalCancel /\ UNCHANGED <<treeVars, appVars, chatVars>>
  \/ (\E c \in pending : PendingResolve(c)) /\ UNCHANGED treeVars
  \/ (\E c \in pending : PendingReject(c)) /\ UNCHANGED treeVars
  \/ CreateThreadResolve /\ UNCHANGED <<treeVars, opVars>>
  \/ CreateThreadReject /\ UNCHANGED <<treeVars, opVars>>
  \/ BackendAccept /\ UNCHANGED <<treeVars, chatVars, opVars>>
  \/ InvokeReject /\ UNCHANGED <<treeVars, chatVars, opVars>>
  \/ BackendPersist /\ UNCHANGED <<treeVars, chatVars, opVars>>
  \/ StreamDone /\ UNCHANGED <<treeVars, chatVars, opVars>>
  \/ StreamDoneUnheard /\ UNCHANGED <<treeVars, chatVars, opVars>>
  \/ (\E l \in loads : LoadMessagesResolve(l))
       /\ UNCHANGED <<treeVars, chatVars, opVars>>
  \/ (\E l \in loads : LoadMessagesReject(l))
       /\ UNCHANGED <<treeVars, chatVars, opVars>>

OpsSpec == OpsInit /\ [][OpsNext]_vars

\* ----------------------------------------------------------- ThreadListSpec
\* the thread list under a new chat and renames whose backend calls overlap
ThreadListNext ==
  \/ (\E i \in 1..Len(threads) : SelectThread(threads[i]))
       /\ UNCHANGED <<treeVars, chatVars, opVars>>
  \/ ListenRegistered /\ UNCHANGED <<treeVars, chatVars, opVars>>
  \/ handleNewChat /\ UNCHANGED <<treeVars, opVars>>
  \/ CreateThreadResolve /\ UNCHANGED <<treeVars, opVars>>
  \/ CreateThreadReject /\ UNCHANGED <<treeVars, opVars>>
  \/ CallsLeft /\ (\E i \in 1..Len(threads) : handleRenameThread(threads[i]))
       /\ UNCHANGED <<treeVars, appVars, chatVars>>
  \/ (\E c \in pending : PendingResolve(c)) /\ UNCHANGED treeVars
  \/ (\E c \in pending : PendingReject(c)) /\ UNCHANGED treeVars
  \/ (\E l \in loads : LoadMessagesResolve(l))
       /\ UNCHANGED <<treeVars, chatVars, opVars>>
  \/ (\E l \in loads : LoadMessagesReject(l))
       /\ UNCHANGED <<treeVars, chatVars, opVars>>

ThreadListSpec == OpsInit /\ [][ThreadListNext]_vars



\* ------------------------------------------------- claims on the tree builder
Built == treePc = "built"

LastMessage == treeMessages[Len(treeMessages)]

\* the last message has a stored reply_to_id
LastHasReply == Len(treeMessages) > 0 /\ LastMessage.reply_to_id # NoReply

\* a node with the last message's id is reachable in the forest before the graft
LastInForest ==
  Len(treeMessages) > 0
  /\ LastMessage.id \in ForestNodes(buildMessageTree(treeMessages))

\* C1: the returned forest (roots plus descendants) holds every input message
\* exactly once, and the streaming node exactly when streaming is active.
C1_Completeness ==
  Built =>
    /\ \A i \in 1..Len(treeMessages) :
         ForestOccurrences(tree, treeMessages[i].id) = 1
    /\ ForestOccurrences(tree, StreamId) = (IF treeStreaming THEN 1 ELSE 0)

\* C2: the parent/child relation of the forest the builder returns is
\* acyclic: no node of it is its own descendant.
C2_NoCycle ==
  Built => \A n \in ForestNodes(tree) : n \notin Descendants(tree, n)

\* the patched reply_to_id of message i
PatchedReply(i) == PatchedMessages(treeMessages)[i].reply_to_id

\* a forest was built from a list holding a self reply and a two-message
\* reply cycle, with the streaming node grafted
C2_Witness ==
  /\ Built /\ treeStreaming
  /\ Len(treeMessages) = MaxTreeMsgs
  /\ \E i \in 1..Len(treeMessages) : PatchedReply(i) = i
  /\ \E i, j \in 1..Len(treeMessages) :
       i # j /\ PatchedReply(i) = j /\ PatchedReply(j) = i

\* C8 as stated: the streaming node hangs under the node the last message's
\* reply_to_id targets, not under the last message.
C8_AttachUnderTarget ==
  (/\ Built /\ treeStreaming /\ LastHasReply
   /\ LastMessage.reply_to_id # LastMessage.id
   /\ LastMessage.reply_to_id \in ForestNodes(tree))
  => ParentOf(tree, StreamId) = LastMessage.reply_to_id

\* C8 amended: with a reply_to_id on the last message the streaming node hangs
\* under the last message itself or, when that node is not in the forest, is a
\* root; it never hangs under the reply target.
C8_AttachUnderLast ==
  (Built /\ treeStreaming /\ LastHasReply) =>
    /\ ParentOf(tree, StreamId) \in {LastMessage.id, NoParent}
    /\ ParentOf(tree, StreamId) # LastMessage.reply_to_id
    /\ ParentOf(tree, StreamId) = NoParent => StreamId \in SeqToSet(tree.roots)

C8_Witness ==
  /\ Built /\ treeStreaming /\ LastHasReply
  /\ LastMessage.reply_to_id # LastMessage.id
  /\ LastMessage.reply_to_id \in ForestNodes(tree)
  /\ ParentOf(tree, StreamId) = LastMessage.id

\* C9: with a stored reply_to_id on the last message and its node reachable,
\* the streaming node is the last child of that node and not a root; nothing
\* else of the forest changes.
C9_GraftUnderLastMessage ==
  (Built /\ treeStreaming /\ LastHasReply /\ LastInForest) =>
    LET plain == buildMessageTree(treeMessages) IN
    /\ tree.children[LastMessage.id] =
         Append(plain.children[LastMessage.id], StreamId)
    /\ tree.roots = plain.roots
    /\ \A n \in DOMAIN tree.children :
         n # LastMessage.id => tree.children[n] = plain.children[n]

C9_Witness ==
  /\ Built /\ treeStreaming /\ LastHasReply /\ LastInForest
  /\ Len(treeMessages) = MaxTreeMsgs
  /\ ParentOf(tree, LastMessage.id) # NoParent
  /\ ParentOf(tree, StreamId) = LastMessage.id

IsRootOnly(i) ==
  /\ Occurrences(tree.roots, treeMessages[i].id) = 1
  /\ \A n \in DOMAIN tree.children :
       treeMessages[i].id \notin SeqToSet(tree.children[n])

\* message i is a child of node p, once, of nobody else, and not a root
IsChildOnlyOf(i, p) ==
  /\ Occurrences(tree.children[p], treeMessages[i].id) = 1
  /\ treeMessages[i].id \notin SeqToSet(tree.roots)
  /\ \A n \in DOMAIN tree.children :
       n # p => treeMessages[i].id \notin SeqToSet(tree.children[n])

\* message i has a stored reply_to_id that is the id of no loaded message
Orphan(i) ==
  /\ treeMessages[i].reply_to_id # NoReply
  /\ treeMessages[i].reply_to_id \notin MsgIds(treeMessages)

\* C11: a message whose reply_to_id is set and matches no loaded message is a
\* root of the forest: not dropped, and no node's child.
C11_OrphanPromotion ==
  Built => \A i \in 1..Len(treeMessages) : Orphan(i) => IsRootOnly(i)

\* an orphan stands between two other messages, one of them replying to it
C11_Witness ==
  /\ Built /\ Len(treeMessages) = MaxTreeMsgs
  /\ Orphan(2) /\ ~Orphan(1) /\ ~Orphan(3)
  /\ treeMessages[3].reply_to_id = 2
  /\ tree.roots = <<1, 2>>

\* message i is an assistant message without stored reply_to_id right after a
\* user message
Adjacent(i) ==
  /\ i > 1
  /\ treeMessages[i].role = "assistant"
  /\ treeMessages[i].reply_to_id = NoReply
  /\ treeMessages[i-1].role = "user"

\* where the stored reply_to_id alone puts message i
PlacedAsStored(i) ==
  IF treeMessages[i].reply_to_id # NoReply
     /\ treeMessages[i].reply_to_id \in MsgIds(treeMessages)
  THEN IsChildOnlyOf(i, treeMessages[i].reply_to_id)
  ELSE IsRootOnly(i)

\* the placement of every message of the list under check
PlacedByHeuristic ==
  \A i \in 1..Len(treeMessages) :
    IF Adjacent(i) THEN IsChildOnlyOf(i, treeMessages[i-1].id)
    ELSE PlacedAsStored(i)

PastAssembly == newChat.pc \in {"creating", "done", "failed"}

\* the last n messages of a stored log, taken by position
LogTail(t, n) ==
  [i \in 1..(IF Len(db[t]) < n THEN Len(db[t]) ELSE n) |->
     db[t][Len(db[t]) - (IF Len(db[t]) < n THEN Len(db[t]) ELSE n) + i]]

\* the tails of the first k configured threads whose fetch succeeded, in the
\* order of the id list
RECURSIVE SucceededTails(_, _)
SucceededTails(k, n) ==
  IF k = 0 THEN <<>>
  ELSE SucceededTails(k - 1, n)
         \o (IF newChat.selected[k] \in newChat.failed THEN <<>>
             ELSE LogTail(newChat.selected[k], n))

\* the context block is absent from the instruction text
NoContextBlock ==
  \A i \in 1..Len(newChat.systemPrompt) :
    newChat.systemPrompt[i] \notin {ContextOpen, ContextClose}

\* C13: with smart context on and source thread ids configured, the pool is
\* the concatenation of the last 5 messages of every configured thread whose
\* fetch succeeded and nothing else; when that is empty no context is built,
\* whatever the active thread shows and the first thread stores.
C13_PoolFromSelectedOnly ==
  (PastAssembly /\ smartContextEnabled /\ Len(newChat.selected) > 0) =>
    /\ newChat.contextMessages = SucceededTails(Len(newChat.selected), 5)
    /\ newChat.contextMessages = <<>> =>
         newChat.systemPrompt = BaseText /\ newChat.recent = <<>>

\* three or more configured threads, one fetch failed, one source log longer
\* than 5; the active thread shows messages and is not a source
C13_Witness ==
  /\ PastAssembly /\ smartContextEnabled
  /\ Len(newChat.selected) >= 3
  /\ Cardinality(newChat.failed) = 1
  /\ \E k \in 1..Len(newChat.selected) :
       /\ newChat.selected[k] \notin newChat.failed
       /\ Len(db[newChat.selected[k]]) > 5
  /\ activeThreadId # NoThread /\ Len(messages) > 0
  /\ \A k \in 1..Len(newChat.selected) : newChat.selected[k] # activeThreadId
  /\ Len(newChat.contextMessages) > 5

\* ids of the messages of a list
IdsOf(msgs) == {msgs[i].id : i \in 1..Len(msgs)}

\* the lines of the instruction text between the two delimiter lines
ContextLines ==
  SubSeq(newChat.systemPrompt, Len(BaseText) + 3, Len(newChat.systemPrompt) - 2)

\* C14: the pool holds at most 5 messages of each source thread; the rendered
\* context holds at most 20 messages, taken from the pool, none of them older
\* than a pool message left out, in ascending created_at order; 3 source
\* threads of 8 messages give 15 messages.
C14_ContextCap ==
  (PastAssembly /\ smartContextEnabled /\ Len(newChat.selected) > 0) =>
    LET pool == newChat.contextMessages
        recent == newChat.recent
    IN /\ \A t \in DOMAIN db :
            Cardinality({i \in 1..Len(pool) : pool[i].thread_id = t}) <= 5
       /\ Len(recent) = (IF Len(pool) < 20 THEN Len(pool) ELSE 20)
       /\ Cardinality(IdsOf(recent)) = Len(recent)
       /\ IdsOf(recent) \subseteq IdsOf(pool)
       /\ \A i, j \in 1..Len(recent) :
            i < j => recent[i].created_at <= recent[j].created_at
       /\ \A i \in 1..Len(pool), j \in 1..Len(recent) :
            pool[i].id \notin IdsOf(recent)
              => pool[i].created_at <= recent[j].created_at
       /\ Len(pool) > 0 => Len(ContextLines) = Len(recent)
       /\ (/\ Len(newChat.selected) = 3 /\ newChat.failed = {}
           /\ \A k \in 1..3 : Len(db[newChat.selected[k]]) = 8)
          => Len(pool) = 15 /\ Len(recent) = 15

\* more than 20 messages were collected, not in created_at order, and a
\* message left out is as old as no rendered one
C14_Witness ==
  /\ PastAssembly /\ smartContextEnabled
  /\ Len(newChat.contextMessages) > 20
  /\ Len(newChat.recent) = 20
  /\ \E i \in 1..(Len(newChat.contextMessages) - 1) :
       newChat.contextMessages[i].created_at
         > newChat.contextMessages[i + 1].created_at
  /\ \E i \in 1..Len(newChat.contextMessages) :
       /\ newChat.contextMessages[i].id \notin IdsOf(newChat.recent)
       /\ newChat.contextMessages[i].created_at < newChat.recent[1].created_at

\* 3 source threads of 8 messages each, every fetch succeeded
C14_Example ==
  /\ PastAssembly /\ smartContextEnabled
  /\ Len(newChat.selected) = 3 /\ newChat.failed = {}
  /\ \A k \in 1..3 : Len(db[newChat.selected[k]]) = 8

\* the post-selection processing was applied to the pool: the rendered
\* messages are the latest of the pool in ascending order, and a non-empty
\* pool puts the context block after the persona text
ContextBuilt ==
  LET pool == newChat.contextMessages
      recent == newChat.recent
  IN /\ Len(recent) = (IF Len(pool) < 20 THEN Len(pool) ELSE 20)
     /\ IdsOf(recent) \subseteq IdsOf(pool)
     /\ \A i, j \in 1..Len(recent) :
          i < j => recent[i].created_at <= recent[j].created_at
     /\ IF Len(pool) > 0
        THEN /\ Len(newChat.systemPrompt) = Len(BaseText) + 4 + Len(recent)
             /\ newChat.systemPrompt[Len(BaseText) + 2] = ContextOpen
             /\ newChat.systemPrompt[Len(newChat.systemPrompt) - 1] = ContextClose
        ELSE newChat.systemPrompt = BaseText

\* several ids are configured and exactly one fetch has failed
OneFetchFailed ==
  /\ smartContextEnabled
  /\ Len(newChat.selected) >= 2
  /\ Cardinality(newChat.failed) = 1

\* the context after one failed fetch: built from the tails of all the other
\* configured threads
OneFailedContext ==
  (PastAssembly /\ OneFetchFailed) =>
    /\ newChat.contextMessages = SucceededTails(Len(newChat.selected), 5)
    /\ \A k \in 1..Len(newChat.selected) :
         newChat.selected[k] \notin newChat.failed
           => IdsOf(LogTail(newChat.selected[k], 5))
                \subseteq IdsOf(newChat.contextMessages)
    /\ ContextBuilt

\* C15: the rejected fetch of one configured thread does not end the handler
\* and keeps what was collected; the handler goes on to the next thread or to
\* create_thread, and the context is built from the last 5 messages of every
\* other configured thread, wherever in the id list the failing thread is.
C15_PartialFetchFailure ==
  [][/\ (newChat.pc = "fetchSelected" /\ newChat'.failed # newChat.failed) =>
          /\ newChat'.contextMessages = newChat.contextMessages
          /\ newChat'.pc = (IF newChat.idx < Len(newChat.selected)
                            THEN "fetchSelected" ELSE "creating")
          /\ newChat'.pc = "creating" =>
               createCalls' = Append(createCalls, newChat'.systemPrompt)
     /\ OneFailedContext']_vars

\* the fetch of the middle one of three configured threads failed; messages
\* of the first and of the third are in the context
C15_Witness ==
  /\ PastAssembly /\ OneFetchFailed
  /\ Len(newChat.selected) = 3
  /\ newChat.failed = {newChat.selected[2]}
  /\ Len(db[newChat.selected[2]]) > 0
  /\ \E i, j \in 1..Len(newChat.recent) :
       /\ newChat.recent[i].thread_id = newChat.selected[1]
       /\ newChat.recent[j].thread_id = newChat.selected[3]

\* handleNewChat has not reached the create_thread call yet
BeforeCreate == newChat.pc \in {"idle", "fetchSelected", "fetchFirst"}

\* context assembly failed: the fetch of the first thread was rejected
AssemblyFailed ==
  /\ smartContextEnabled /\ newChat.selected = <<>>
  /\ newChat.failed # {}

\* C16: a new-chat action invokes create_thread exactly once whatever happens
\* during context assembly, and never ends without it; when assembly fails
\* the call carries the persona's base text only.
C16_AlwaysCreates ==
  /\ BeforeCreate => createCalls = <<>>
  /\ ~BeforeCreate =>
       /\ PastAssembly
       /\ createCalls = <<newChat.systemPrompt>>
  /\ (PastAssembly /\ AssemblyFailed) => createCalls = <<BaseText>>

\* the fetch of the first thread, which stores messages, was rejected and
\* create_thread was invoked
C16_Witness ==
  /\ PastAssembly /\ AssemblyFailed
  /\ Len(db[newChat.threads[1]]) > 0
  /\ Len(createCalls) = 1

\* smart context is on, no source ids are configured and no loaded messages
\* are shown: the fallback to the first thread is taken
FirstThreadFallback ==
  /\ smartContextEnabled /\ newChat.selected = <<>>
  /\ messages = <<>>
  /\ Len(newChat.threads) > 0

\* the threads of the list that store messages
ThreadsWithMessages ==
  {t \in SeqToSet(newChat.threads) : Len(db[t]) > 0}

\* C17 as stated: no source ids, an active thread that has no messages and
\* one existing thread that has messages: the context is built from the full
\* log of that thread.
C17_UsesThreadWithMessages ==
  (/\ newChat.pc = "creating" /\ FirstThreadFallback /\ newChat.failed = {}
   /\ activeThreadId # NoThread /\ db[activeThreadId] = <<>>
   /\ Cardinality(ThreadsWithMessages) = 1)
  => \A t \in ThreadsWithMessages :
       /\ newChat.contextMessages = db[t]
       /\ newChat.recent = SliceLast(db[t], 20)

\* C17 amended: with no source ids and no loaded messages shown, the context
\* is built from the full log of the first thread of the thread list, bounded
\* by the global cap of 20, when its fetch succeeds; that is the log of the
\* thread that has messages when that thread is the first (or only) one.
C17_UsesFirstThread ==
  (PastAssembly /\ FirstThreadFallback /\ newChat.failed = {}) =>
    /\ newChat.contextMessages = db[newChat.threads[1]]
    /\ newChat.recent = SliceLast(db[newChat.threads[1]], 20)
    /\ ContextBuilt
    /\ Len(newChat.threads) = 1 =>
         \A t \in ThreadsWithMessages : newChat.contextMessages = db[t]

\* the first of several threads stores more than 20 messages, and its last 20
\* are the context
C17_Witness ==
  /\ PastAssembly /\ FirstThreadFallback /\ newChat.failed = {}
  /\ Len(newChat.threads) >= 2
  /\ Len(db[newChat.threads[1]]) > 20
  /\ Len(newChat.recent) = 20
  /\ newChat.systemPrompt # BaseText

\* smart context is on, no source ids are configured and the active thread
\* shows loaded messages: the legacy fallback is taken
LegacyFallback ==
  /\ smartContextEnabled /\ selectedContextThreadIds = <<>>
  /\ activeThreadId # NoThread /\ Len(messages) > 0

\* C18: with no source ids and an active thread showing loaded messages, the
\* new-chat action goes to create_thread without any fetch, and its pool is
\* exactly the loaded messages, all of them.
C18_LegacyPool ==
  [][(newChat.pc = "idle" /\ LegacyFallback) =>
       /\ newChat'.pc = "creating"
       /\ newChat'.contextMessages = messages
       /\ IdsOf(newChat'.recent) \subseteq IdsOf(messages)
       /\ Len(newChat'.recent) = (IF Len(messages) < 20 THEN Len(messages) ELSE 20)
       /\ ContextBuilt'
       /\ createCalls' = <<newChat'.systemPrompt>>]_vars

\* the active thread shows more than 5 messages, all of them in the pool, and
\* is not the first of the thread list
C18_Witness ==
  /\ PastAssembly /\ smartContextEnabled /\ newChat.selected = <<>>
  /\ Len(messages) > 5
  /\ newChat.contextMessages = messages
  /\ Len(newChat.threads) >= 2
  /\ messages[1].thread_id # newChat.threads[1]
  /\ Len(db[newChat.threads[1]]) > 0

\* C19: when smart context is off or the selection gives an empty pool, the
\* instruction text passed to create_thread is exactly the persona's base
\* text and holds no context delimiter line.
C19_NoContext ==
  (PastAssembly /\ (~smartContextEnabled \/ newChat.contextMessages = <<>>)) =>
    /\ createCalls = <<BaseText>>
    /\ NoContextBlock

\* smart context is on and every selected source is empty or failed: one
\* selected thread stores messages but its fetch failed, another is empty
C19_Witness ==
  /\ PastAssembly /\ smartContextEnabled
  /\ Len(newChat.selected) >= 2
  /\ newChat.contextMessages = <<>>
  /\ \E k \in 1..Len(newChat.selected) :
       Len(db[newChat.selected[k]]) > 0 /\ newChat.selected[k] \in newChat.failed
  /\ \E k \in 1..Len(newChat.selected) :
       Len(db[newChat.selected[k]]) = 0 /\ newChat.selected[k] \notin newChat.failed
  /\ createCalls = <<BaseText>>

\* smart context is off although sources are configured and messages shown
C19_WitnessDisabled ==
  /\ PastAssembly /\ ~smartContextEnabled
  /\ Len(newChat.selected) > 0 /\ Len(messages) > 0
  /\ createCalls = <<BaseText>>

\* no thread exists
C19_WitnessNoThread ==
  /\ PastAssembly /\ smartContextEnabled
  /\ newChat.threads = <<>>
  /\ createCalls = <<BaseText>>

\* ------------------------------------------------- claims on the App state
\* a generation request is issued in this step
IssuesRequest == requests' = requests + 1

\* the stream-done handler runs in this step
DoneHandled == outcome' = "done" /\ outcome # "done"

\* the catch block of a generation request runs in this step
RejectHandled == outcome' = "rejected" /\ outcome # "rejected"

\* C3: no generation request (send, retry, regenerate, edit) is issued while
\* isStreaming is true.
C3_NoRequestWhileStreaming == [][IssuesRequest => ~isStreaming]_vars

\* a second request has been issued after the first cycle ended
C3_Witness ==
  /\ requests = MaxRequests
  /\ gen.phase = "sent"
  /\ gen.kind = "edit"
  /\ isStreaming

C5_DoneClearsAndReloads ==
  [][DoneHandled =>
       /\ ~isStreaming'
       /\ streamingContent' = <<>>
       /\ activeThreadId' # NoThread
       /\ activeThreadId' \in loads']_vars

\* the done handler has run after deltas were shown; the reload is in flight
\* and the optimistic message is still displayed
C5_Witness ==
  /\ outcome = "done"
  /\ ~isStreaming
  /\ streamingContent = <<>>
  /\ loads = {activeThreadId}
  /\ \E i \in 1..Len(messages) : messages[i].id >= TempIdBase
  /\ Len(db[activeThreadId]) > Len(messages)

\* C6: when the initiating request is rejected, isStreaming becomes false, the
\* buffer is empty, and neither the persisted log nor the displayed list is
\* written.
C6_RejectDiscardsBuffer ==
  [][RejectHandled =>
       /\ ~isStreaming'
       /\ streamingContent' = <<>>
       /\ db' = db
       /\ messages' = messages]_vars

\* an optimistic message of handleSendMessage is displayed
TempShown == \E i \in 1..Len(messages) : messages[i].id >= TempIdBase

\* C7: when a generation request is rejected while the displayed list carries
\* an optimistic change, a reload of the thread is forced, which rolls the
\* change back.
C7_RejectForcesReload ==
  [][(RejectHandled /\ TempShown) => gen.threadId \in loads']_vars

\* the forest ChatArea shows for the App state
ShownForest == messageTree(messages, isStreaming)

\* the answer of the generation in flight is stored and a load has returned it
FinalMessageShown ==
  /\ gen.phase = "persisted"
  /\ gen.finalId \in MsgIds(messages)

\* C20: the forest shown never holds both the streaming node and the stored
\* assistant message of the same generation.
C20_NoStreamingNodeBesideFinal ==
  FinalMessageShown =>
    ~(/\ StreamId \in ForestNodes(ShownForest)
      /\ gen.finalId \in ForestNodes(ShownForest))

\* the backend has ended the generation cycle: it rejected the request or
\* emitted stream-done, and nothing of the cycle is still to come
CycleEnded == gen.phase = "idle"

\* C21: every generation cycle returns to Idle: once the backend has rejected
\* the request or emitted its one stream-done, isStreaming is false, and a new
\* generation request is then accepted.
C21_CycleReturnsToIdle == CycleEnded => ~isStreaming

\* a cycle that ended with isStreaming still true never leaves that state:
\* no later step clears the flag
StuckStreaming == [][(CycleEnded /\ isStreaming) => (CycleEnded' /\ isStreaming')]_vars

\* a step in which the client issues a mutating backend operation that is not
\* the sending of a message: delete_message, delete_thread, create_thread,
\* edit_message or regenerate_from_message
IssuesMutation ==
  \/ \E c \in pending' \ pending : c.op \in {"delete_message", "delete_thread"}
  \/ Len(createCalls') > Len(createCalls)
  \/ /\ gen.phase = "idle" /\ gen'.phase = "sent"
     /\ gen'.kind \in {"edit", "regenerate"}

\* C22: there is one mutation path at a time: while isStreaming is true the
\* client issues no delete_message, delete_thread, create_thread, edit_message
\* or regenerate_from_message call.
C22_OneMutationPath == [][IssuesMutation => ~isStreaming]_vars

\* the persisted nodes of a sibling list, in the order of the list
Persisted(s) == SelectSeq(s, LAMBDA x : x # StreamId)

\* a sibling list is in input order: its persisted nodes come in the order of
\* the input list (a message's id is its position there) and the streaming
\* node, when it is in the list, comes last
InInputOrder(s) ==
  /\ \A i, j \in 1..Len(Persisted(s)) :
       i < j => Persisted(s)[i] < Persisted(s)[j]
  /\ \A i \in 1..Len(s) : s[i] = StreamId => i = Len(s)

\* C23: the forest preserves input order: the persisted roots and the children
\* of every node appear in the order of the input list, and the streaming
\* node, when present, is last among its siblings.
C23_InputOrder ==
  Built => /\ InInputOrder(tree.roots)
           /\ \A n \in DOMAIN tree.children : InInputOrder(tree.children[n])

\* two persisted roots followed by the streaming node, and a node with a child
C23_Witness ==
  /\ Built /\ treeStreaming
  /\ Len(tree.roots) >= 3 /\ tree.roots[Len(tree.roots)] = StreamId
  /\ \E n \in DOMAIN tree.children : tree.children[n] # <<>>

\* the instruction text of the create_thread call of this handleNewChat
InstructionText == createCalls[Len(createCalls)]

\* the line that renders message m in the context block
RenderedLine(m) ==
  <<IF m.role = "user" THEN "USER" ELSE "ASSISTANT", ": ">> \o m.content

\* number of lines of the instruction text that render message m
TimesRendered(m) ==
  Cardinality({i \in 1..Len(InstructionText) : InstructionText[i] = RenderedLine(m)})

\* C24: for a non-empty pool the instruction text of create_thread is the base
\* text, a blank line, the opening delimiter line, one line "ROLE: content"
\* per selected message in ascending created_at order, and the closing
\* delimiter line; every selected message is rendered once, and the text has
\* no line besides these, so no other message is rendered.
C24_InstructionText ==
  (PastAssembly /\ Len(newChat.contextMessages) > 0) =>
    LET selected == newChat.recent
        b == Len(BaseText)
        n == Len(selected)
    IN /\ Len(createCalls) = 1
       /\ Len(InstructionText) = b + n + 4
       /\ SubSeq(InstructionText, 1, b) = BaseText
       /\ InstructionText[b + 1] = <<>>
       /\ InstructionText[b + 2] = <<"[CONTEXT FROM PREVIOUS SESSION]">>
       /\ \A i \in 1..n : InstructionText[b + 2 + i] = RenderedLine(selected[i])
       /\ InstructionText[b + n + 3] = <<"[END CONTEXT]">>
       /\ InstructionText[b + n + 4] = <<>>
       /\ \A i, j \in 1..n :
            i < j => selected[i].created_at <= selected[j].created_at
       /\ \A i, j \in 1..n : i # j => selected[i].id # selected[j].id
       /\ \A i \in 1..n : TimesRendered(selected[i]) = 1

\* messages of both roles and of two threads are rendered, collected out of
\* created_at order, and a stored message of a source thread is left out
C24_Witness ==
  /\ PastAssembly /\ Len(newChat.contextMessages) > 0
  /\ \E i, j \in 1..Len(newChat.recent) :
       /\ newChat.recent[i].role = "user" /\ newChat.recent[j].role = "assistant"
       /\ newChat.recent[i].thread_id # newChat.recent[j].thread_id
  /\ \E i, j \in 1..Len(newChat.contextMessages) :
       /\ i < j
       /\ newChat.contextMessages[i].created_at
            > newChat.contextMessages[j].created_at
  /\ \E k \in 1..Len(db[newChat.recent[1].thread_id]) :
       TimesRendered(db[newChat.recent[1].thread_id][k]) = 0

\* the list before the request: the stored log of the thread, which the
\* backend has not touched yet
BeforeRequest == db[gen.threadId]

\* the message the request names is at position k of the list before it
TargetAt(k) ==
  /\ k \in 1..Len(BeforeRequest)
  /\ BeforeRequest[k].id = gen.messageId

\* the displayed list is the first n messages of the list before the request
KeepsFirst(n) ==
  /\ Len(messages) = n
  /\ \A i \in 1..n : i <= Len(BeforeRequest) /\ messages[i] = BeforeRequest[i]

\* C25: the optimistic update of a generation request is the truncation the
\* backend contract prescribes: regenerate from m leaves the messages before
\* m; edit of m leaves the messages up to m, m with the new content; retry
\* drops the last message exactly when it is an assistant message; a message
\* id that is not in the list leaves the list as it is.
C25_OptimisticTruncation ==
  gen.phase = "sent" =>
    /\ gen.kind = "regenerate" =>
         /\ \A k \in 1..Len(BeforeRequest) : TargetAt(k) => KeepsFirst(k - 1)
         /\ (~\E k \in 1..Len(BeforeRequest) : TargetAt(k))
              => messages = BeforeRequest
    /\ gen.kind = "edit" =>
         /\ \A k \in 1..Len(BeforeRequest) :
              TargetAt(k) =>
                /\ Len(messages) = k
                /\ \A i \in 1..(k - 1) : messages[i] = BeforeRequest[i]
                /\ messages[k] = [BeforeRequest[k] EXCEPT !.content = gen.content]
         /\ (~\E k \in 1..Len(BeforeRequest) : TargetAt(k))
              => messages = BeforeRequest
    /\ gen.kind = "retry" =>
         IF Len(BeforeRequest) > 0
            /\ BeforeRequest[Len(BeforeRequest)].role = "assistant"
         THEN KeepsFirst(Len(BeforeRequest) - 1)
         ELSE messages = BeforeRequest

\* regenerate from the second of three messages has left the first one
C25_Witness ==
  /\ gen.phase = "sent" /\ gen.kind = "regenerate"
  /\ Len(BeforeRequest) = 3 /\ TargetAt(2)
  /\ Len(messages) = 1

\* an edit of the second of three messages has dropped the third
C25_WitnessEdit ==
  /\ gen.phase = "sent" /\ gen.kind = "edit"
  /\ Len(BeforeRequest) = 3 /\ TargetAt(2)
  /\ Len(messages) = 2 /\ messages[2].content = EditText

\* a request that names a message which is not displayed
C25_WitnessAbsent ==
  /\ gen.phase = "sent" /\ gen.kind \in {"regenerate", "edit"}
  /\ Len(BeforeRequest) > 0
  /\ ~\E k \in 1..Len(BeforeRequest) : TargetAt(k)

\* the user confirms the dialog that the Sidebar opened for a thread deletion
ConfirmsThreadDeletion ==
  /\ modalConfig.isOpen /\ modalConfig.onConfirm.kind = "onDeleteThread"
  /\ ModalConfirm

\* delete_thread resolves for call c of the step
ThreadDeletionSucceeds(c) ==
  /\ c \in pending /\ c.op = "delete_thread"
  /\ PendingResolve(c)

\* C26: when the user confirms the deletion of a thread in the confirmation
\* dialog, delete_thread is issued for that thread; when the call succeeds the
\* thread leaves the thread list, and if it was the active thread the active
\* thread is cleared and the displayed list emptied.
C26_ConfirmedThreadDeletion ==
  [][/\ ConfirmsThreadDeletion =>
          \E c \in pending' : /\ c.op = "delete_thread"
                              /\ c.threadId = modalConfig.onConfirm.threadId
     /\ \A c \in pending :
          ThreadDeletionSucceeds(c) =>
            /\ c.threadId \notin SeqToSet(threads')
            /\ activeThreadId = c.threadId =>
                 activeThreadId' = NoThread /\ messages' = <<>>]_vars

\* no delete_thread call is ever in flight
DeleteThreadNeverIssued == \A c \in pending : c.op # "delete_thread"

\* the delete_message call c of a confirmed message deletion resolves
MessageDeletionSucceeds(c) ==
  /\ c \in pending /\ c.op = "delete_message"
  /\ PendingResolve(c)

\* the delete_message call c of a confirmed message deletion rejects
MessageDeletionFails(c) ==
  /\ c \in pending /\ c.op = "delete_message"
  /\ PendingReject(c)

\* C27: after a confirmed message deletion the dialog is closed whether
\* delete_message succeeds or rejects; on success a reload of the active
\* thread is requested, on rejection the displayed list is left as it is.
C27_MessageDeletionOutcome ==
  [][\A c \in pending :
       /\ MessageDeletionSucceeds(c) =>
            /\ ~modalConfig'.isOpen
            /\ activeThreadId # NoThread /\ activeThreadId \in loads'
       /\ MessageDeletionFails(c) =>
            /\ ~modalConfig'.isOpen
            /\ messages' = messages]_vars

\* what the handler does in every run: the dialog is closed either way, the
\* reload asked for is that of the thread that was active when the deletion
\* was requested, and a rejection leaves the displayed list as it is
DeletionReloadsRequestingThread ==
  [][\A c \in pending :
       /\ MessageDeletionSucceeds(c) =>
            ~modalConfig'.isOpen /\ c.active \in loads'
       /\ MessageDeletionFails(c) =>
            ~modalConfig'.isOpen /\ messages' = messages]_vars

\* the response of a load arrives that was started for a thread which is not
\* the active thread any more
StaleLoadResponse(l) ==
  /\ l \in loads /\ l # activeThreadId
  /\ LoadMessagesResolve(l)

\* C28: once no load is outstanding every displayed message belongs to the
\* active thread: the response of a load started for a thread selected earlier
\* does not leave its list in place of that of the thread selected later, in
\* whatever order the responses arrive.
C28_NoStaleOverwrite ==
  [][\A l \in loads :
       (StaleLoadResponse(l) /\ loads' = {}) =>
         \A i \in 1..Len(messages') :
           messages'[i].thread_id = activeThreadId']_vars

\* the forest on display holds the ephemeral streaming node
StreamingNodeShown == StreamId \in ForestNodes(ShownForest)

\* C29: the answer in flight is shown only in the thread that asked for it:
\* while a generation cycle runs, the streaming node and the deltas received
\* are on display only when the active thread is the thread of the request,
\* also after the user has selected another thread.
C29_StreamingNodeInOwnThread ==
  (gen.phase # "idle" /\ (StreamingNodeShown \/ streamingContent # <<>>))
    => activeThreadId = gen.threadId

\* the threads storage holds beyond those the App started with: the threads
\* create_thread has made
CreatedThreads == {t \in DOMAIN db : t > NThreads}

\* C30: every thread a new chat has created is in the thread list afterwards,
\* and the active thread is null or a thread of the list, for every
\* interleaving of new-chat and rename actions whose backend calls overlap.
C30_ThreadListConsistent ==
  /\ newChat.pc = "done" => CreatedThreads \subseteq SeqToSet(threads)
  /\ activeThreadId = NoThread \/ activeThreadId \in SeqToSet(threads)

====
